---------------------------- MODULE Spec2Model ----------------------------
(***************************************************************************)
(* Model of kaboom_rs: a sphere tracer over a noise-perturbed sphere.      *)
(*                                                                         *)
(* f32 values are modelled as fixed-point integers: the integer a stands   *)
(* for the real a / Scale.  Every arithmetic operation rounds its result   *)
(* to the nearest representable value, as an f32 operation does.           *)
(***************************************************************************)
EXTENDS Integers, Sequences, FiniteSets, TLC

\* ------------------------------------------------------------------------
\* f32 arithmetic (fixed point)
\* ------------------------------------------------------------------------

Scale == 10 * 10 * 10

Half == Scale \div 2

Abs(a) == IF a < 0 THEN -a ELSE a

Min(a, b) == IF a < b THEN a ELSE b

Max(a, b) == IF a > b THEN a ELSE b

\* a * b of two f32 values, rounded to nearest.  The operand of larger
\* magnitude is split into integer and fractional part so that no
\* intermediate product leaves the machine integers.
FMulSplit(a, b) == (a \div Scale) * b + (((a % Scale) * b + Half) \div Scale)

FMul(a, b) == IF Abs(a) >= Abs(b) THEN FMulSplit(a, b) ELSE FMulSplit(b, a)

\* a / b of two f32 values (b # 0), rounded to nearest.
FDiv(a, b) ==
    IF b > 0 THEN (a * Scale + (b \div 2)) \div b
             ELSE ((-a) * Scale + ((-b) \div 2)) \div (-b)

\* f32::floor, as a whole number (not scaled).
Floor(a) == a \div Scale

\* Largest r with r * r <= n, by Newton's iteration from above.
RECURSIVE ISqrtFrom(_, _)
ISqrtStep(n, r, y) == IF y >= r THEN r ELSE ISqrtFrom(n, y)

ISqrtFrom(n, r) == ISqrtStep(n, r, (r + n \div r) \div 2)

ISqrt(n) == IF n <= 0 THEN 0 ELSE ISqrtFrom(n, 46340)

\* ------------------------------------------------------------------------
\* geometry.rs
\* ------------------------------------------------------------------------

\* Vec3f::new and the vec3! macro.
vec3(x, y, z) == [x |-> x, y |-> y, z |-> z]

\* Components of magnitude up to NormExact are squared as they are; larger
\* ones are squared at reduced precision, as the f32 mantissa does.
NormExact == 26 * Scale

NormScaled(x, y, z, k) ==
    IF k = 1
    THEN ISqrt(x * x + y * y + z * z)
    ELSE k * ISqrt((x \div k) * (x \div k) + (y \div k) * (y \div k)
                   + (z \div k) * (z \div k))

NormOf(x, y, z) ==
    NormScaled(x, y, z, (Max(Abs(x), Max(Abs(y), Abs(z))) \div NormExact) + 1)

\* Vec3f::norm
norm(v) == NormOf(v.x, v.y, v.z)

\* impl Mul for Vec3f: the dot product, an f32.
mul_vec(a, b) == FMul(a.x, b.x) + FMul(a.y, b.y) + FMul(a.z, b.z)

\* impl Add for Vec3f
add(a, b) == vec3(a.x + b.x, a.y + b.y, a.z + b.z)

\* impl Sub for Vec3f
sub(a, b) == vec3(a.x - b.x, a.y - b.y, a.z - b.z)

\* impl Mul<f32> for Vec3f
mul_f32(a, k) == vec3(FMul(a.x, k), FMul(a.y, k), FMul(a.z, k))

\* impl Neg for Vec3f
neg(a) == vec3(-a.x, -a.y, -a.z)

\* A normalize that computes the result without storing it in self.
normalize_pure(v) ==
    [self |-> v, ret |-> mul_f32(v, FDiv(Scale, norm(v)))]

\* Vec3f::normalize(&mut self): stores the scaled vector in self and
\* returns a copy of it.  self is the receiver after the call.
StoreAndReturn(n) == [self |-> n, ret |-> n]

normalize(v) == StoreAndReturn(mul_f32(v, FDiv(Scale, norm(v))))

\* ------------------------------------------------------------------------
\* f32 values of large magnitude
\* ------------------------------------------------------------------------

\* The sample points of the noise octaves are the marched position scaled
\* up to 62 times, which leaves the range of a single machine integer; such
\* a value is kept as its floor w (whole units) and the remainder m
\* (thousandths, 0 .. Scale - 1).
Carry(u, mm) == [w |-> u + (mm \div Scale), m |-> mm % Scale]

\* The f32 a as a value of large range.
Wide(a) == Carry(0, a)

WAdd(a, b) == Carry(a.w + b.w, a.m + b.m)

WNeg(a) == Carry(-a.w, -a.m)

\* a * k for an f32 constant k >= 0, rounded to nearest.
WScalePos(a, k) ==
    Carry(a.w * (k \div Scale) + (a.w \div Scale) * (k % Scale),
          (a.w % Scale) * (k % Scale) + ((a.m * k + Half) \div Scale))

WScale(a, k) == IF k >= 0 THEN WScalePos(a, k) ELSE WNeg(WScalePos(a, -k))

\* A Vec3f of such values.
WideVec(v) == [x |-> Wide(v.x), y |-> Wide(v.y), z |-> Wide(v.z)]

\* impl Mul<f32> for Vec3f, on values of large range
mul_f32_wide(a, k) ==
    [x |-> WScale(a.x, k), y |-> WScale(a.y, k), z |-> WScale(a.z, k)]

\* impl Mul for Vec3f (dot product) of a constant vector c with a.
mul_vec_wide(c, a) ==
    WAdd(WAdd(WScale(a.x, c.x), WScale(a.y, c.y)), WScale(a.z, c.z))

\* ------------------------------------------------------------------------
\* main.rs: scene constants and noise
\* ------------------------------------------------------------------------

\* const SPHERE_RADIUS: f32 = 1.5
SPHERE_RADIUS == (3 * Scale) \div 2

\* const NOISE_AMPLITUDE: f32 = 1.0
NOISE_AMPLITUDE == Scale

\* t.min(1.0).max(0.0)
Clamp01(t) == Max(Min(t, Scale), 0)

\* A lerp that extrapolates: t is used as it is.
lerp_unclamped(v0, v1, t) == v0 + FMul(v1 - v0, t)

\* lerp::<f32>
lerp(v0, v1, t) == v0 + FMul(v1 - v0, Clamp01(t))

\* lerp::<Vec3f>
lerp_vec(v0, v1, t) == add(v0, mul_f32(sub(v1, v0), Clamp01(t)))

\* sin of a in 0 .. 3141 thousandths of a radian, in ten-thousandths
\* (Bhaskara's rational approximation 16q / (5 pi^2 - 4q), q = a (pi - a)).
SinOfQ(q) == 4 * ((4 * q * 100) \div ((49348022 - 4 * q) \div 100))

SinHalfTurn(a) == SinOfQ(a * (3142 - a))

\* f32::sin of the whole number n, in ten-thousandths.
SinTurn(a) == IF a <= 3141 THEN SinHalfTurn(a) ELSE -SinHalfTurn(a - 3142)

Sin(n) == SinTurn(((n % 6283) * 1000) % 6283)

\* hash(n) = frac(sin(n) * 43758.5453); n is a whole number.
Frac(x) == x - Floor(x) * Scale

\* s (ten-thousandths) * 43758.5453, in thousandths.
SinScaled(s) == s * 4375 + ((s * 85453) \div 100000)

hash(n) == Frac(SinScaled(Sin(n)))

\* The lattice cell of x (whole numbers): vec3!(x.x.floor(), ...).
NoiseCell(x) == vec3(x.x.w, x.y.w, x.z.w)

\* The fractional offset of x in its cell: vec3!(x.x - p.x, ...).
NoiseFracIn(x, p) ==
    vec3((x.x.w - p.x) * Scale + x.x.m, (x.y.w - p.y) * Scale + x.y.m,
         (x.z.w - p.z) * Scale + x.z.m)

NoiseFrac(x) == NoiseFracIn(x, NoiseCell(x))

\* f = f * (f * (vec3!(3.0, 3.0, 3.0) - f * 2.0)): Vec3f * Vec3f is the dot
\* product, so f is scaled by the scalar f . (3 - 2f).
NoiseFade(f) ==
    mul_f32(f, mul_vec(f, sub(vec3(3 * Scale, 3 * Scale, 3 * Scale),
                              mul_f32(f, 2 * Scale))))

\* n = p * vec3!(1.0, 57.0, 113.0), a whole number.  n is only ever passed
\* to sin, whose period here is 6283 thousandths; n is kept modulo 6283
\* whole units, which leaves sin(n + c) as it is.
NoiseIndex(p) == ((p.x % 6283) + 57 * (p.y % 6283) + 113 * (p.z % 6283)) % 6283

\* The 8 hashed corners, in the order the interpolation reads them.
NoiseCorners(n) ==
    << hash(n), hash(n + 1), hash(n + 57), hash(n + 58),
       hash(n + 113), hash(n + 114), hash(n + 170), hash(n + 171) >>

\* The nested lerp of noise: along x, then y, then z.
NoiseLerp(c, f) ==
    lerp(lerp(lerp(c[1], c[2], f.x), lerp(c[3], c[4], f.x), f.y),
         lerp(lerp(c[5], c[6], f.x), lerp(c[7], c[8], f.x), f.y),
         f.z)

noise(x) ==
    NoiseLerp(NoiseCorners(NoiseIndex(NoiseCell(x))), NoiseFade(NoiseFrac(x)))

rotate(v) ==
    [x |-> mul_vec_wide(vec3(0, 800, 600), v),
     y |-> mul_vec_wide(vec3(-800, 360, -480), v),
     z |-> mul_vec_wide(vec3(-600, -480, 640), v)]

\* The four octaves summed and divided by 0.9375; p is the sample point of
\* the current octave and the next one is p * 2.32, p * 3.03, p * 2.61.
FbmOctave3(f, p) == FDiv(f + FMul(63, noise(p)), 938)

FbmOctave2(f, p) == FbmOctave3(f + FMul(125, noise(p)), mul_f32_wide(p, 2610))

FbmOctave1(f, p) == FbmOctave2(f + FMul(250, noise(p)), mul_f32_wide(p, 3030))

FbmOctave0(p) == FbmOctave1(FMul(500, noise(p)), mul_f32_wide(p, 2320))

fractal_brownian_motion(v) == FbmOctave0(rotate(v))

\* A distance field whose displacement pushes the surface outwards.
signed_distance_outward(p) ==
    norm(p) - (SPHERE_RADIUS
               + FMul(fractal_brownian_motion(mul_f32_wide(WideVec(p), 3400)), NOISE_AMPLITUDE))

signed_distance(p) ==
    norm(p) - (SPHERE_RADIUS
               + (-FMul(fractal_brownian_motion(mul_f32_wide(WideVec(p), 3400)),
                        NOISE_AMPLITUDE)))


\* ------------------------------------------------------------------------
\* main.rs: sphere_trace and distance_field_normal
\* ------------------------------------------------------------------------

\* for _ in 0..128
MaxSteps == 128

\* Option<Vec3f>
None == [hit |-> FALSE, pos |-> vec3(0, 0, 0)]

Some(p) == [hit |-> TRUE, pos |-> p]

\* x.powf(2.0)
Powf2(x) == FMul(x, x)

\* The early discard that compares the other way round.
EarlyDiscardFlipped(orig, dir) ==
    mul_vec(orig, orig) - Powf2(mul_vec(orig, dir)) < Powf2(SPHERE_RADIUS)

\* orig * orig - (orig * dir).powf(2.0) > SPHERE_RADIUS.powf(2.0)
EarlyDiscard(orig, dir) ==
    mul_vec(orig, orig) - Powf2(mul_vec(orig, dir)) > Powf2(SPHERE_RADIUS)

\* A step without the 0.01 floor.
MarchAdvanceNoFloor(pos, dir, d) == add(pos, mul_f32(dir, FMul(d, 100)))

\* pos = pos + dir * (d * 0.1).max(0.01)
MarchAdvance(pos, dir, d) == add(pos, mul_f32(dir, Max(FMul(d, 100), 10)))

\* One iteration of the loop body on the loop's state: the position, and
\* whether the loop has returned Some(pos).
MarchStep(st, dir, d) ==
    IF d < 0 THEN [pos |-> st.pos, hit |-> TRUE]
             ELSE [pos |-> MarchAdvance(st.pos, dir, d), hit |-> FALSE]

MarchIter(st, dir) ==
    IF st.hit THEN st ELSE MarchStep(st, dir, signed_distance(st.pos))

\* n iterations of the loop body, as two halves: the second half starts
\* from the state the first half ends in, unless that one has returned.
RECURSIVE MarchTimes(_, _, _)
MarchTimes(n, st, dir) ==
    IF n <= 0 THEN st
    ELSE IF n = 1 THEN MarchIter(st, dir)
    ELSE CHOOSE r \in { IF half.hit THEN half
                                    ELSE MarchTimes(n - (n \div 2), half, dir) :
                        half \in {MarchTimes(n \div 2, st, dir)} } : TRUE

\* The marching loop from its k-th iteration on, at position pos.
AsOption(st) == IF st.hit THEN Some(st.pos) ELSE None

MarchFrom(pos, dir, k) ==
    AsOption(MarchTimes(MaxSteps - k, [pos |-> pos, hit |-> FALSE], dir))

sphere_trace(orig, dir) ==
    IF EarlyDiscard(orig, dir) THEN None ELSE MarchFrom(orig, dir, 0)

\* The forward differences around pos, d being the distance at pos and
\* eps the offset.
NormalFrom(pos, eps, d) ==
    normalize(vec3(signed_distance(add(pos, vec3(eps, 0, 0))) - d,
                   signed_distance(add(pos, vec3(0, eps, 0))) - d,
                   signed_distance(add(pos, vec3(0, 0, eps))) - d)).ret

distance_field_normal(pos) == NormalFrom(pos, 100, signed_distance(pos))


\* ------------------------------------------------------------------------
\* main.rs: palette and shading
\* ------------------------------------------------------------------------

\* f32::sqrt
FSqrt(a) == ISqrt(a * Scale)

\* x to the power 2^-i, by i square roots.
RECURSIVE RootPow(_, _)
RootPow(x, i) == IF i = 0 THEN x ELSE FSqrt(RootPow(x, i - 1))

\* x.powf(2.2) for x >= 0: x^2 * x^0.2, the exponent 0.2 taken to 8 binary
\* places (1/8 + 1/16 + 1/128 + 1/256).
PowfGamma(x) ==
    FMul(FMul(x, x),
         FMul(FMul(RootPow(x, 3), RootPow(x, 4)),
              FMul(RootPow(x, 7), RootPow(x, 8))))

\* x.powf(1.0 / 2.2) for x >= 0, the exponent taken to 10 binary places
\* (1/4 + 1/8 + 1/16 + 1/64 + 1/1024).
PowfInvGamma(x) ==
    FMul(FMul(FMul(RootPow(x, 2), RootPow(x, 3)),
              FMul(RootPow(x, 4), RootPow(x, 6))),
         RootPow(x, 10))

\* vec3!(r / 255.0, g / 255.0, b / 255.0)
Rgb(r, g, b) ==
    vec3(FDiv(r * Scale, 255 * Scale), FDiv(g * Scale, 255 * Scale),
         FDiv(b * Scale, 255 * Scale))

\* The five stops, in the order of the gradient from d = 0 to d = 1.
PaletteStop(k) ==
    CASE k = 0 -> Rgb(248, 243, 239)      \* gray
      [] k = 1 -> Rgb(209, 209, 211)      \* darkgray
      [] k = 2 -> Rgb(131, 157, 190)      \* red
      [] k = 3 -> Rgb(100, 143, 185)      \* orange
      [] OTHER -> Rgb(66, 122, 169)       \* yellow

\* A segment that forgets to subtract its offset: lerp(.., x * 4.0).
PaletteSegmentNoOffset(k, x) ==
    lerp_vec(PaletteStop(k), PaletteStop(k + 1), FMul(x, 4 * Scale))

\* The k-th branch: lerp(stop k, stop k+1, x * 4.0 - k).
PaletteSegment(k, x) ==
    lerp_vec(PaletteStop(k), PaletteStop(k + 1),
             FMul(x, 4 * Scale) - k * Scale)

\* The if-chain on the clamped x.
PaletteBranch(x) ==
    IF x < 250 THEN PaletteSegment(0, x)
    ELSE IF x < 500 THEN PaletteSegment(1, x)
    ELSE IF x < 750 THEN PaletteSegment(2, x)
    ELSE PaletteSegment(3, x)

palette_fire(d) == PaletteBranch(Max(Min(d, Scale), 0))

\* The colour of a pixel whose ray hit the surface (main.rs, the Some arm).
ShadeWith(noise_level, light_dir, normal) ==
    mul_f32(palette_fire(FMul(-200 + noise_level, 2 * Scale)),
            Max(mul_vec(light_dir, normal), 400))

ShadeHit(hit) ==
    ShadeWith(FDiv(SPHERE_RADIUS - norm(hit), NOISE_AMPLITUDE),
              normalize(sub(vec3(10 * Scale, 10 * Scale, 10 * Scale),
                            hit)).ret,
              distance_field_normal(hit))

\* The background colour (main.rs, the else arm).
Background == vec3(PowfGamma(200), PowfGamma(700), PowfGamma(800))

\* The closure body for one ray: trace, then shade or background.
ShadeOption(r) == IF r.hit THEN ShadeHit(r.pos) ELSE Background

ShadeRay(orig, dir) == ShadeOption(sphere_trace(orig, dir))


\* ------------------------------------------------------------------------
\* State
\* ------------------------------------------------------------------------

VARIABLES
    \* a Vec3f variable of a caller and one operation applied to it
    v_self, v_arg, v_ret, v_pre, v_op, v_calls,
    \* one call of noise
    n_x, n_frac, n_fade, n_corners, n_out, n_pc,
    \* palette_fire evaluated along increasing d
    p_d, p_col, p_prev, p_pc,
    \* one pixel's closure body: sphere_trace, then shading
    t_orig, t_dir, t_pos, t_k, t_calls, t_res, t_pc, t_samples, t_pixel,
    \* main: the parallel rendering loop and the encoder
    fb, r_img, r_written, r_writer, r_owner, r_col, r_phase, r_k, r_out,
    r_stale

vecVars == <<v_self, v_arg, v_ret, v_pre, v_op, v_calls>>

noiseVars == <<n_x, n_frac, n_fade, n_corners, n_out, n_pc>>

paletteVars == <<p_d, p_col, p_prev, p_pc>>

traceVars ==
    <<t_orig, t_dir, t_pos, t_k, t_calls, t_res, t_pc, t_samples, t_pixel>>

renderVars ==
    <<fb, r_img, r_written, r_writer, r_owner, r_col, r_phase, r_k, r_out,
      r_stale>>

vars == <<vecVars, noiseVars, paletteVars, traceVars, renderVars>>

\* The variables each part of the program leaves alone.
notVec == <<noiseVars, paletteVars, traceVars, renderVars>>

notNoise == <<vecVars, paletteVars, traceVars, renderVars>>

notPalette == <<vecVars, noiseVars, traceVars, renderVars>>

notTrace == <<vecVars, noiseVars, paletteVars, renderVars>>

notRender == <<vecVars, noiseVars, paletteVars, traceVars>>

Zero3 == vec3(0, 0, 0)

\* ------------------------------------------------------------------------
\* One pixel: sphere_trace step by step, then the shading
\* ------------------------------------------------------------------------

\* Ray origins are (i * RayStep, 0, 3.0) for i in 0 .. RayGrid, and the
\* centre of the sphere.
RayGrid == 6

RayStep == 290

RayOrigins ==
    {vec3(i * RayStep, 0, 3 * Scale) : i \in 0 .. RayGrid} \cup {Zero3}

\* Unit-length directions, and one of length 0.5.
RayDirs ==
    { vec3(0, 0, -1000), vec3(-280, 0, -960), vec3(-600, 0, -800),
      vec3(360, 480, -800), vec3(0, 0, -500) }

IsUnit(d) == d.x * d.x + d.y * d.y + d.z * d.z = Scale * Scale

TraceInit ==
    /\ t_orig \in RayOrigins
    /\ t_dir \in RayDirs
    /\ t_pos = t_orig
    /\ t_k = 0
    /\ t_calls = 0
    /\ t_res = None
    /\ t_pc = "check"
    /\ t_samples = << >>
    /\ t_pixel = Zero3

TraceIdle ==
    /\ t_orig = Zero3
    /\ t_dir = Zero3
    /\ t_pos = Zero3
    /\ t_k = 0
    /\ t_calls = 0
    /\ t_res = None
    /\ t_pc = "idle"
    /\ t_samples = << >>
    /\ t_pixel = Zero3

\* A loop that runs one iteration too many: 0..=128.
LoopContinuesInclusive(k) == k <= MaxSteps

\* for _ in 0..128
LoopContinues(k) == k < MaxSteps

\* if orig * orig - (orig * dir).powf(2.0) > ... { return None; }
TraceDiscard ==
    /\ t_pc = "check"
    /\ EarlyDiscard(t_orig, t_dir)
    /\ t_res' = None
    /\ t_pc' = "done"
    /\ UNCHANGED <<t_orig, t_dir, t_pos, t_k, t_calls, t_samples, t_pixel>>
    /\ UNCHANGED notTrace

\* let mut pos = orig;
TraceEnter ==
    /\ t_pc = "check"
    /\ ~EarlyDiscard(t_orig, t_dir)
    /\ t_pos' = t_orig
    /\ t_k' = 0
    /\ t_pc' = "loop"
    /\ UNCHANGED <<t_orig, t_dir, t_calls, t_res, t_samples, t_pixel>>
    /\ UNCHANGED notTrace

\* One iteration that finds d < 0: return Some(pos).
TraceHit ==
    /\ t_pc = "loop"
    /\ LoopContinues(t_k)
    /\ \E d \in {signed_distance(t_pos)} :
           /\ d < 0
           /\ t_samples' = Append(t_samples, [pos |-> t_pos, d |-> d])
    /\ t_calls' = t_calls + 1
    /\ t_res' = Some(t_pos)
    /\ t_pc' = "done"
    /\ UNCHANGED <<t_orig, t_dir, t_pos, t_k, t_pixel>>
    /\ UNCHANGED notTrace

\* One iteration that finds d >= 0: advance pos.
TraceAdvance ==
    /\ t_pc = "loop"
    /\ LoopContinues(t_k)
    /\ \E d \in {signed_distance(t_pos)} :
           /\ d >= 0
           /\ t_samples' = Append(t_samples, [pos |-> t_pos, d |-> d])
           /\ t_pos' = MarchAdvance(t_pos, t_dir, d)
    /\ t_calls' = t_calls + 1
    /\ t_k' = t_k + 1
    /\ UNCHANGED <<t_orig, t_dir, t_res, t_pc, t_pixel>>
    /\ UNCHANGED notTrace

\* The loop ran out of iterations: None.
TraceExhaust ==
    /\ t_pc = "loop"
    /\ ~LoopContinues(t_k)
    /\ t_res' = None
    /\ t_pc' = "done"
    /\ UNCHANGED <<t_orig, t_dir, t_pos, t_k, t_calls, t_samples, t_pixel>>
    /\ UNCHANGED notTrace

\* if let Some(hit) = ... : 4 evaluations of signed_distance in
\* distance_field_normal, then the palette.
TraceShadeHit ==
    /\ t_pc = "done"
    /\ t_res.hit
    /\ t_pixel' = ShadeHit(t_res.pos)
    /\ t_calls' = t_calls + 4
    /\ t_pc' = "shaded"
    /\ UNCHANGED <<t_orig, t_dir, t_pos, t_k, t_res, t_samples>>
    /\ UNCHANGED notTrace

\* else: the background colour.
TraceShadeMiss ==
    /\ t_pc = "done"
    /\ ~t_res.hit
    /\ t_pixel' = Background
    /\ t_pc' = "shaded"
    /\ UNCHANGED <<t_orig, t_dir, t_pos, t_k, t_calls, t_res, t_samples>>
    /\ UNCHANGED notTrace

TraceNext ==
    \/ TraceDiscard
    \/ TraceEnter
    \/ TraceHit
    \/ TraceAdvance
    \/ TraceExhaust
    \/ TraceShadeHit
    \/ TraceShadeMiss


\* ------------------------------------------------------------------------
\* Vec3f operations applied to a caller's variable
\* ------------------------------------------------------------------------

\* Components of the input vectors are whole numbers in -VecGrid .. VecGrid.
VecGrid == 2

\* Operations applied to one variable before it goes out of scope.
MaxVecCalls == 2

VecInputs ==
    { vec3(x * Scale, y * Scale, z * Scale) :
        x \in -VecGrid .. VecGrid, y \in {-1, 0, 2}, z \in {0, 1} } \ {Zero3}

VecArgs == {vec3(Scale, -2 * Scale, Half), vec3(0, 3 * Scale, -Scale)}

\* What an operation returns: a Vec3f, or an f32 for the dot product.
RetVec(v) == [vec |-> v, num |-> 0]

RetNum(n) == [vec |-> Zero3, num |-> n]

VecInit ==
    /\ v_self \in VecInputs
    /\ v_arg \in VecArgs
    /\ v_pre = v_self
    /\ v_ret = RetVec(v_self)
    /\ v_op = "new"
    /\ v_calls = 0

VecIdle ==
    /\ v_self = Zero3
    /\ v_arg = Zero3
    /\ v_pre = Zero3
    /\ v_ret = RetVec(Zero3)
    /\ v_op = "idle"
    /\ v_calls = MaxVecCalls

\* An operator taking self by value: the caller's variable is a Copy and
\* stays as it is.
VecByValue(op, ret) ==
    /\ v_op # "idle"
    /\ v_calls < MaxVecCalls
    /\ v_pre' = v_self
    /\ v_self' = v_self
    /\ v_ret' = ret
    /\ v_op' = op
    /\ v_calls' = v_calls + 1
    /\ UNCHANGED v_arg
    /\ UNCHANGED notVec

\* r = v + a
VecAdd == VecByValue("add", RetVec(add(v_self, v_arg)))

\* r = v - a
VecSub == VecByValue("sub", RetVec(sub(v_self, v_arg)))

\* r = v * k
VecScale == \E k \in {-Scale, Half, 3 * Scale} :
    VecByValue("mul_f32", RetVec(mul_f32(v_self, k)))

\* r = -v
VecNeg == VecByValue("neg", RetVec(neg(v_self)))

\* r = v * a (dot product)
VecDot == VecByValue("mul_vec", RetNum(mul_vec(v_self, v_arg)))

\* r = v.norm()
VecNorm == VecByValue("norm", RetNum(norm(v_self)))

\* r = v.normalize(): takes &mut self.
VecNormalize ==
    /\ v_op # "idle"
    /\ v_calls < MaxVecCalls
    /\ norm(v_self) # 0
    /\ v_pre' = v_self
    /\ v_self' = normalize(v_self).self
    /\ v_ret' = RetVec(normalize(v_self).ret)
    /\ v_op' = "normalize"
    /\ v_calls' = v_calls + 1
    /\ UNCHANGED v_arg
    /\ UNCHANGED notVec

VecNext ==
    \/ VecAdd
    \/ VecSub
    \/ VecScale
    \/ VecNeg
    \/ VecDot
    \/ VecNorm
    \/ VecNormalize

\* ------------------------------------------------------------------------
\* One call of noise
\* ------------------------------------------------------------------------

\* Input coordinates are NoiseLow + i * NoiseStep for i in 0 .. NoiseGrid.
NoiseGrid == 4

NoiseStep == 475

NoiseLow == -(3 * Scale) \div 4

NoiseCoords == {NoiseLow + i * NoiseStep : i \in 0 .. NoiseGrid}

\* Points of the grid, and two points far from the origin.
NoiseInputs ==
    {vec3(x, y, z) : x \in NoiseCoords, y \in NoiseCoords, z \in NoiseCoords}
        \cup {vec3(123456789, -98765432, 5550), vec3(-2000000725, 999, -1)}

NoiseInit ==
    /\ n_x \in NoiseInputs
    /\ n_frac = Zero3
    /\ n_fade = Zero3
    /\ n_corners = << >>
    /\ n_out = 0
    /\ n_pc = "call"

NoiseIdle ==
    /\ n_x = Zero3
    /\ n_frac = Zero3
    /\ n_fade = Zero3
    /\ n_corners = << >>
    /\ n_out = 0
    /\ n_pc = "idle"

\* noise(x): the intermediate values are kept beside the result.
NoiseCall ==
    /\ n_pc = "call"
    /\ n_frac' = NoiseFrac(WideVec(n_x))
    /\ n_fade' = NoiseFade(NoiseFrac(WideVec(n_x)))
    /\ n_corners' = NoiseCorners(NoiseIndex(NoiseCell(WideVec(n_x))))
    /\ n_out' = noise(WideVec(n_x))
    /\ n_pc' = "ret"
    /\ UNCHANGED n_x
    /\ UNCHANGED notNoise

NoiseNext == NoiseCall

\* ------------------------------------------------------------------------
\* palette_fire along increasing d
\* ------------------------------------------------------------------------

\* d runs from PaletteLow in steps of PaletteStep, PaletteGrid times.
PaletteGrid == 280

PaletteStep == 5

PaletteLow == -(Scale \div 5)

PaletteInit ==
    /\ p_d = PaletteLow
    /\ p_col = Zero3
    /\ p_prev = Zero3
    /\ p_pc = "call"

PaletteIdle ==
    /\ p_d = 0
    /\ p_col = Zero3
    /\ p_prev = Zero3
    /\ p_pc = "idle"

\* col = palette_fire(d)
PaletteCall ==
    /\ p_pc \in {"call", "next"}
    /\ p_col' = palette_fire(p_d)
    /\ p_prev' = p_col
    /\ p_pc' = IF p_pc = "call" THEN "first" ELSE "ret"
    /\ UNCHANGED p_d
    /\ UNCHANGED notPalette

\* The caller moves on to the next d.
PaletteAdvance ==
    /\ p_pc \in {"first", "ret"}
    /\ p_d < PaletteLow + PaletteGrid * PaletteStep
    /\ p_d' = p_d + PaletteStep
    /\ p_pc' = "next"
    /\ UNCHANGED <<p_col, p_prev>>
    /\ UNCHANGED notPalette

PaletteNext ==
    \/ PaletteCall
    \/ PaletteAdvance


\* ------------------------------------------------------------------------
\* main: the rendering loop over rows, and the encoder
\* ------------------------------------------------------------------------

\* let width / let height (the model renders a small image)
Width == 3

Height == 3

\* Threads of the rayon pool.
NumWorkers == 2

Cells == 0 .. (Width * Height - 1)

Rows == 0 .. (Height - 1)

Workers == 1 .. NumWorkers

\* f32::tan, of an angle in thousandths of a radian below pi / 2.
Tan(a) == FDiv(SinHalfTurn(a), SinHalfTurn(1571 - a))

\* let fov = PI / 3.0
Fov == FDiv(3142, 3 * Scale)

\* The direction of the ray through pixel (i, j), normalized.
CameraDir(i, j) ==
    normalize(vec3((i * Scale + Half) - FDiv(Width * Scale, 2 * Scale),
                   -(j * Scale + Half) + FDiv(Height * Scale, 2 * Scale),
                   FDiv(-(Height * Scale),
                        FMul(2 * Scale, Tan(FDiv(Fov, 2 * Scale)))))).ret

\* The value the closure stores in pixel (i, j) of row j.
PixelValue(i, j) == ShadeRay(vec3(0, 0, 3 * Scale), CameraDir(i, j))

\* Chunks of width - 1 cells: neighbouring rows overlap.
ChunkCellShort(j, i) == j * (Width - 1) + i

\* par_chunks_mut(width).enumerate(): cell i of chunk j.
ChunkCell(j, i) == j * Width + i

\* What the closure computes for each pixel, by the pixel's place in the
\* image; r_img holds this table, the closure being a pure function.
Image == [c \in Cells |-> PixelValue(c % Width, c \div Width)]

\* f32 as i32: truncation towards zero.
AsI32(a) == IF a >= 0 THEN a \div Scale ELSE -((-a) \div Scale)

\* (p as i32).min(255).max(0) as u8
ToByte(a) == Max(Min(AsI32(a), 255), 0)

\* The three bytes written for one pixel.
Bytes(q) == <<ToByte(q.x), ToByte(q.y), ToByte(q.z)>>

EncodePixel(pixel) ==
    Bytes(mul_f32(vec3(PowfInvGamma(pixel.x), PowfInvGamma(pixel.y),
                       PowfInvGamma(pixel.z)), 255 * Scale))

\* "P6\n{} {}\n255\n"
Header == <<Width, Height, 255>>

RenderInit ==
    /\ fb = [c \in Cells |-> Zero3]
    /\ r_img = Image
    /\ r_written = [c \in Cells |-> 0]
    /\ r_writer = [c \in Cells |-> 0]
    /\ r_owner = [j \in Rows |-> 0]
    /\ r_col = [j \in Rows |-> 0]
    /\ r_phase = "render"
    /\ r_k = 0
    /\ r_out = [header |-> << >>, body |-> << >>]
    /\ r_stale = FALSE

RenderIdle ==
    /\ fb = << >>
    /\ r_img = << >>
    /\ r_written = << >>
    /\ r_writer = << >>
    /\ r_owner = << >>
    /\ r_col = << >>
    /\ r_phase = "idle"
    /\ r_k = 0
    /\ r_out = [header |-> << >>, body |-> << >>]
    /\ r_stale = FALSE

\* A worker is busy while the row it took is unfinished.
Busy(w) == \E j \in Rows : r_owner[j] = w /\ r_col[j] < Width

\* The encoder starting as soon as some row is finished.
JoinReadyAny == \E j \in Rows : r_col[j] = Width

\* for_each returns when every row has been processed.
JoinReady == \A j \in Rows : r_col[j] = Width

\* A pool thread takes a row nobody has taken.
TakeRow(w, j) ==
    /\ r_phase = "render"
    /\ r_owner[j] = 0
    /\ ~Busy(w)
    /\ r_owner' = [r_owner EXCEPT ![j] = w]
    /\ UNCHANGED <<fb, r_img, r_written, r_writer, r_col, r_phase, r_k, r_out,
                   r_stale>>
    /\ UNCHANGED notRender

\* *pixel = ...: the owner of row j stores the next pixel of its line.
WritePixel(w, j) ==
    /\ r_owner[j] = w
    /\ r_col[j] < Width
    /\ fb' = [fb EXCEPT ![ChunkCell(j, r_col[j])] = r_img[j * Width + r_col[j]]]
    /\ r_written' = [r_written EXCEPT ![ChunkCell(j, r_col[j])] = @ + 1]
    /\ r_writer' = [r_writer EXCEPT ![ChunkCell(j, r_col[j])] = w]
    /\ r_col' = [r_col EXCEPT ![j] = @ + 1]
    /\ UNCHANGED <<r_img, r_owner, r_phase, r_k, r_out, r_stale>>
    /\ UNCHANGED notRender

\* for_each has returned: create the file and write the header.
Join ==
    /\ r_phase = "render"
    /\ JoinReady
    /\ r_phase' = "encode"
    /\ r_out' = [r_out EXCEPT !.header = Header]
    /\ UNCHANGED <<fb, r_img, r_written, r_writer, r_owner, r_col, r_k, r_stale>>
    /\ UNCHANGED notRender

\* for pixel in framebuffer: encode and write the next pixel.
WriteBytes ==
    /\ r_phase = "encode"
    /\ r_k < Width * Height
    /\ r_out' = [r_out EXCEPT !.body = Append(@, EncodePixel(fb[r_k]))]
    /\ r_stale' = (r_stale \/ r_written[r_k] = 0)
    /\ r_k' = r_k + 1
    /\ UNCHANGED <<fb, r_img, r_written, r_writer, r_owner, r_col, r_phase>>
    /\ UNCHANGED notRender

\* The last pixel is out: main returns.
Finish ==
    /\ r_phase = "encode"
    /\ r_k = Width * Height
    /\ r_phase' = "done"
    /\ UNCHANGED <<fb, r_img, r_written, r_writer, r_owner, r_col, r_k, r_out,
                   r_stale>>
    /\ UNCHANGED notRender

RenderNext ==
    \/ \E w \in Workers, j \in Rows : TakeRow(w, j)
    \/ \E w \in Workers, j \in Rows : WritePixel(w, j)
    \/ Join
    \/ WriteBytes
    \/ Finish

\* ------------------------------------------------------------------------
\* Specifications
\* ------------------------------------------------------------------------

InitVec == VecInit /\ NoiseIdle /\ PaletteIdle /\ TraceIdle /\ RenderIdle

InitNoise == VecIdle /\ NoiseInit /\ PaletteIdle /\ TraceIdle /\ RenderIdle

InitPalette == VecIdle /\ NoiseIdle /\ PaletteInit /\ TraceIdle /\ RenderIdle

InitTrace == VecIdle /\ NoiseIdle /\ PaletteIdle /\ TraceInit /\ RenderIdle

InitRender == VecIdle /\ NoiseIdle /\ PaletteIdle /\ TraceIdle /\ RenderInit

\* Operations on a Vec3f variable.
SpecVec == InitVec /\ [][VecNext]_vars

\* Calls of noise.
SpecNoise == InitNoise /\ [][NoiseNext]_vars

\* Calls of palette_fire.
SpecPalette == InitPalette /\ [][PaletteNext]_vars

\* One pixel's sphere_trace and shading.
SpecTrace == InitTrace /\ [][TraceNext]_vars

\* The whole render of main.
SpecRender == InitRender /\ [][RenderNext]_vars

Init == InitVec \/ InitNoise \/ InitPalette \/ InitTrace \/ InitRender

Next == VecNext \/ NoiseNext \/ PaletteNext \/ TraceNext \/ RenderNext

Spec == Init /\ [][Next]_vars


\* ------------------------------------------------------------------------
\* Properties of sphere_trace
\* ------------------------------------------------------------------------

\* sphere_trace has returned (the shading may have run as well).
Returned == t_pc \in {"done", "shaded"}

\* orig.orig - (orig.dir)^2 is greater than SPHERE_RADIUS^2, for the ray of
\* the current call.
ApproachExceedsRadius ==
    (FMul(t_orig.x, t_orig.x) + FMul(t_orig.y, t_orig.y)
       + FMul(t_orig.z, t_orig.z))
      - FMul(FMul(t_orig.x, t_dir.x) + FMul(t_orig.y, t_dir.y)
               + FMul(t_orig.z, t_dir.z),
             FMul(t_orig.x, t_dir.x) + FMul(t_orig.y, t_dir.y)
               + FMul(t_orig.z, t_dir.z))
    > (3 * Scale * 3 * Scale) \div (4 * Scale)

\* C1: a ray whose squared closest approach to the origin is greater than
\* SPHERE_RADIUS^2 gets None, and signed_distance is not evaluated during
\* the call.
C1_RejectWithoutSampling ==
    (Returned /\ ApproachExceedsRadius)
        => /\ ~t_res.hit
           /\ t_res = None
           /\ t_samples = << >>
           /\ t_calls = 0

\* A rejected ray: sphere_trace has returned None for it.
C1_Witness ==
    /\ t_pc = "done"
    /\ ApproachExceedsRadius
    /\ t_res = None
    /\ t_calls = 0

\* The samples are pos_0 = orig, pos_{k+1} = pos_k + dir * max(0.1 d_k, 0.01)
\* with d_k = signed_distance(pos_k).
SamplesFollowRecurrence ==
    /\ Len(t_samples) >= 1
    /\ t_samples[1].pos = t_orig
    /\ \A k \in 1 .. Len(t_samples) :
          t_samples[k].d = signed_distance(t_samples[k].pos)
    /\ \A k \in 1 .. (Len(t_samples) - 1) :
          t_samples[k + 1].pos =
              vec3(t_samples[k].pos.x
                     + FMul(t_dir.x, Max(FMul(t_samples[k].d, 100), 10)),
                   t_samples[k].pos.y
                     + FMul(t_dir.y, Max(FMul(t_samples[k].d, 100), 10)),
                   t_samples[k].pos.z
                     + FMul(t_dir.z, Max(FMul(t_samples[k].d, 100), 10)))

\* C2: for a ray that passes the early reject, the result is Some(pos)
\* exactly when one of the at most 128 samples has d < 0, pos is the first
\* such sample, unrefined, and the result is None exactly when all 128
\* samples have d >= 0.
C2_FirstNegativeSample ==
    (Returned /\ ~ApproachExceedsRadius)
        => /\ SamplesFollowRecurrence
           /\ Len(t_samples) <= 128
           /\ t_res.hit <=> (\E k \in 1 .. Len(t_samples) : t_samples[k].d < 0)
           /\ t_res.hit =>
                 /\ t_samples[Len(t_samples)].d < 0
                 /\ t_res = Some(t_samples[Len(t_samples)].pos)
                 /\ \A k \in 1 .. (Len(t_samples) - 1) : t_samples[k].d >= 0
           /\ (t_res = None) <=>
                 /\ Len(t_samples) = 128
                 /\ \A k \in 1 .. 128 : t_samples[k].d >= 0

\* A hit found after the ray has advanced by both kinds of step: one of
\* 0.1 * d and one of the 0.01 floor.
C2_Witness ==
    /\ t_pc = "done"
    /\ t_res.hit
    /\ \E k \in 1 .. (Len(t_samples) - 1) : t_samples[k].d >= 100
    /\ \E k \in 1 .. (Len(t_samples) - 1) :
          t_samples[k].d >= 0 /\ t_samples[k].d < 100

\* C9: signed_distance(p) < 0 only for |p| < SPHERE_RADIUS, and for a
\* unit-length direction the result of sphere_trace is the result of the
\* marching loop run without the early reject (None for a rejected ray).
C9_RejectChangesNoResult ==
    /\ \A k \in 1 .. Len(t_samples) :
          t_samples[k].d < 0
              => ISqrt(t_samples[k].pos.x * t_samples[k].pos.x
                       + t_samples[k].pos.y * t_samples[k].pos.y
                       + t_samples[k].pos.z * t_samples[k].pos.z)
                   < (3 * Scale) \div 2
    /\ (t_pc = "done" /\ IsUnit(t_dir))
          => /\ t_res = MarchFrom(t_orig, t_dir, 0)
             /\ ApproachExceedsRadius => MarchFrom(t_orig, t_dir, 0) = None

\* A rejected ray of unit-length direction.
C9_Witness ==
    /\ t_pc = "done"
    /\ IsUnit(t_dir)
    /\ ApproachExceedsRadius
    /\ t_samples = << >>
    /\ t_res = None

\* C10: sphere_trace evaluates signed_distance at most 128 times, every
\* step of its loop uses up one of the 128 iterations or returns, and the
\* shading of a hit adds exactly 4 evaluations.
C10_BoundedWork ==
    /\ [](t_pc \in {"check", "loop", "done"} => t_calls <= 128)
    /\ [](t_pc \in {"check", "loop", "done"} => t_calls = Len(t_samples))
    /\ [](t_pc = "loop" => t_k <= 128 /\ t_calls = t_k)
    /\ [](t_pc = "shaded" => t_calls <= 128 + 4)
    /\ [](t_pc = "shaded" =>
            t_calls = Len(t_samples) + (IF t_res.hit THEN 4 ELSE 0))
    /\ [][t_pc = "loop" => (t_k' = t_k + 1 \/ t_pc' = "done")]_vars
    /\ [][t_pc = "done" => t_pc' = "shaded"]_vars

\* A call that used the whole budget of 128 evaluations.
C10_Witness ==
    /\ t_pc = "done"
    /\ t_calls = 128
    /\ Len(t_samples) = 128


\* ------------------------------------------------------------------------
\* Properties of Vec3f
\* ------------------------------------------------------------------------

RECURSIVE SeqMin(_)
SeqMin(q) == IF Len(q) = 1 THEN q[1] ELSE Min(q[1], SeqMin(Tail(q)))

RECURSIVE SeqMax(_)
SeqMax(q) == IF Len(q) = 1 THEN q[1] ELSE Max(q[1], SeqMax(Tail(q)))

\* C4: noise(p) is in [0,1): the 8 corners are in [0,1) and the nested
\* interpolation stays between the least and the greatest corner, whatever
\* the weights are.
C4_NoiseInUnitInterval ==
    n_pc = "ret"
        => /\ Len(n_corners) = 8
           /\ \A k \in 1 .. 8 : n_corners[k] >= 0 /\ n_corners[k] < Scale
           /\ n_out >= SeqMin(n_corners)
           /\ n_out <= SeqMax(n_corners)
           /\ n_out >= 0
           /\ n_out < Scale

\* A call whose weights leave [0,1] on every axis, over corners that
\* differ.
C4_Witness ==
    /\ n_pc = "ret"
    /\ n_fade.x > Scale
    /\ n_fade.y > Scale
    /\ n_fade.z > Scale
    /\ SeqMin(n_corners) < SeqMax(n_corners)

\* A fade computed axis by axis: f_c * f_c * (3 - 2 f_c).
NoiseFadeAxis(f) ==
    vec3(FMul(f.x, FMul(f.x, 3 * Scale - 2 * f.x)),
         FMul(f.y, FMul(f.y, 3 * Scale - 2 * f.y)),
         FMul(f.z, FMul(f.z, 3 * Scale - 2 * f.z)))

\* C8: the weights of noise are the fade applied axis by axis,
\* f_c * f_c * (3 - 2 f_c), and each lies in [0,1].
C8_FadeComponentWise ==
    n_pc = "ret"
        => /\ n_fade = NoiseFadeAxis(n_frac)
           /\ n_fade.x >= 0 /\ n_fade.x <= Scale
           /\ n_fade.y >= 0 /\ n_fade.y <= Scale
           /\ n_fade.z >= 0 /\ n_fade.z <= Scale

\* ------------------------------------------------------------------------
\* Properties of palette_fire
\* ------------------------------------------------------------------------

\* The stop below x (x clamped): 0 .. 3.
StopBelow(x) == Min(3, (4 * x) \div Scale)

\* The linear interpolation between the stops around x.
BetweenStops(x) ==
    vec3(PaletteStop(StopBelow(x)).x
           + FMul(PaletteStop(StopBelow(x) + 1).x - PaletteStop(StopBelow(x)).x,
                  4 * x - StopBelow(x) * Scale),
         PaletteStop(StopBelow(x)).y
           + FMul(PaletteStop(StopBelow(x) + 1).y - PaletteStop(StopBelow(x)).y,
                  4 * x - StopBelow(x) * Scale),
         PaletteStop(StopBelow(x)).z
           + FMul(PaletteStop(StopBelow(x) + 1).z - PaletteStop(StopBelow(x)).z,
                  4 * x - StopBelow(x) * Scale))

\* The value at x of the segment that ends at stop k, k in 1 .. 4.
SegmentEndingAt(k, x) ==
    vec3(PaletteStop(k - 1).x
           + FMul(PaletteStop(k).x - PaletteStop(k - 1).x,
                  4 * x - (k - 1) * Scale),
         PaletteStop(k - 1).y
           + FMul(PaletteStop(k).y - PaletteStop(k - 1).y,
                  4 * x - (k - 1) * Scale),
         PaletteStop(k - 1).z
           + FMul(PaletteStop(k).z - PaletteStop(k - 1).z,
                  4 * x - (k - 1) * Scale))

\* C3: palette_fire clamps d to [0,1] and interpolates linearly through the
\* five stops; at d <= 0 it is the gray stop, at d >= 1 the yellow stop, and
\* at 0.25, 0.5 and 0.75 the segment ending there and the segment starting
\* there both give the stop colour; between two neighbouring values of d
\* the colour moves by no more than the steepest segment allows.
C3_PaletteThroughStops ==
    p_pc \in {"first", "ret"}
        => /\ p_col = BetweenStops(Max(Min(p_d, Scale), 0))
           /\ p_d <= 0 => p_col = PaletteStop(0)
           /\ p_d >= Scale => p_col = PaletteStop(4)
           /\ \A k \in 1 .. 3 :
                 p_d = k * (Scale \div 4)
                     => /\ p_col = PaletteStop(k)
                        /\ p_col = SegmentEndingAt(k, p_d)
           /\ p_pc = "ret"
                 => /\ Abs(p_col.x - p_prev.x) <= 2 * PaletteStep
                    /\ Abs(p_col.y - p_prev.y) <= 2 * PaletteStep
                    /\ Abs(p_col.z - p_prev.z) <= 2 * PaletteStep

\* palette_fire has returned at the breakpoint 0.75, coming from below.
C3_Witness ==
    /\ p_pc = "ret"
    /\ p_d = 3 * (Scale \div 4)
    /\ p_col = PaletteStop(3)
    /\ p_prev # p_col

\* ------------------------------------------------------------------------
\* Properties of the render
\* ------------------------------------------------------------------------

\* C5: each cell is written at most once and only by the worker that owns
\* its row; the encoder runs only when every cell has been written once,
\* and never reads a cell that holds its initial value.
C5_EachCellWrittenOnceByOwner ==
    r_phase # "idle"
        => /\ \A c \in Cells : r_written[c] <= 1
           /\ \A c \in Cells :
                 r_written[c] >= 1
                     => /\ r_writer[c] \in Workers
                        /\ r_writer[c] = r_owner[c \div Width]
           /\ r_phase \in {"encode", "done"}
                 => \A c \in Cells : r_written[c] = 1
           /\ ~r_stale

\* The render is over and two workers have each written cells.
C5_Witness ==
    /\ r_phase = "done"
    /\ \A c \in Cells : r_written[c] = 1
    /\ \E c, e \in Cells : r_writer[c] # r_writer[e]
    /\ Len(r_out.body) = Width * Height

\* C6: a written cell (i, j) holds the value that depends on (i, j) only,
\* and every finished run has the same framebuffer and the same output.
C6_DeterministicImage ==
    r_phase # "idle"
        => /\ \A c \in Cells :
                 r_written[c] >= 1
                     => fb[c] = Image[c]
           /\ r_phase = "done"
                 => /\ fb = Image
                    /\ r_out.header = <<Width, Height, 255>>
                    /\ r_out.body =
                         [k \in 1 .. (Width * Height) |-> EncodePixel(Image[k - 1])]

\* A finished run whose rows went to different workers, with a hit pixel
\* and a background pixel in the image.
C6_Witness ==
    /\ r_phase = "done"
    /\ \E j, k \in Rows : r_owner[j] # r_owner[k]
    /\ \E c, e \in Cells : fb[c] # fb[e]
    /\ \E c \in Cells : fb[c] = Background


=============================================================================
